---- MODULE Spec2Model ----
(***************************************************************************)
(* A model of the learnGo tutorial programs.                               *)
(*                                                                         *)
(*   Spec     one run of the driver (src/main.go main): the fixed call     *)
(*            sequence, the standard-input reads of package userinput,     *)
(*            and everything the routines write.                           *)
(*   LiveSpec Spec with the fairness of a running process whose standard   *)
(*            input is eventually closed.                                  *)
(*   FnSpec   the helper functions of packages functions and               *)
(*            underscoreidentifier applied to arguments from bounded sets. *)
(*   ArrSpec  the arrays program (src/unnamed/part_004 main).              *)
(*                                                                         *)
(* Standard input is a sequence of one-character strings.  os.Stdin is no  *)
(* io.RuneScanner, so every fmt.Scan/Scanln/Scanf call wraps it in a fresh *)
(* one-rune look-ahead reader that is dropped when the call returns: a     *)
(* rune the scanner has read and "unread" is gone from the stream.  The    *)
(* scanners below therefore report hw, the highest stream index they       *)
(* tried to read; the call consumes the stream up to hw.                   *)
(***************************************************************************)
EXTENDS Integers, Sequences, FiniteSets, TLC

VARIABLES
    stdin,       \* characters typed and not yet consumed by the process
    eof,         \* standard input has been closed
    typed,       \* number of chunks typed so far
    tty,         \* what was typed when: see Type
    pc,          \* position of the driver run
    pkg,         \* package-level variables of package variables
    calls,       \* routines entered so far, in order
    out,         \* writes so far: records [by, fd, text]
    first_name, last_name, full_name, age, city, adress,   \* locals of the readers
    numProcessed,  \* operands the pending fmt.Scan call has stored so far
    numbers, sum, idx,                                     \* locals of ignoreIndexInLoop
    call,        \* FnSpec: the last function call and what it returned
    apc, arr1, arr2, arr3, arr4, arr, arr5,   \* ArrSpec: the arrays program
    assigned,    \* ArrSpec: how many of the statements of lines 16-21 have run
    writes       \* ArrSpec: the indexed writes <<i, v>> made to arr5, in order

mainVars == <<stdin, eof, typed, tty, pc, pkg, calls, out,
              first_name, last_name, full_name, age, city, adress,
              numProcessed, numbers, sum, idx>>
fnVars   == <<call>>
arrVars  == <<apc, arr1, arr2, arr3, arr4, arr, arr5, assigned, writes>>
vars     == <<mainVars, fnVars, arrVars>>

-----------------------------------------------------------------------------
(* Bounds of the model.                                                    *)

\* chunks of input typed in one run
MaxChunks == 4
\* the most characters that may be typed and not yet read
MaxUnread == 7
\* |a|, |b| of the float64 arguments given to divideTwoNumbers
MaxFloatArg == 10
\* |a|, |b| of the int arguments given to the functions package
MaxIntArg == 17
\* indexed writes to the array copy after the copy is made
MaxWrites == 2

Max(a, b) == IF a >= b THEN a ELSE b
Min(a, b) == IF a <= b THEN a ELSE b
Abs(a) == IF a < 0 THEN -a ELSE a

\* the one element of a singleton.  The({F(x) : x \in {e}}) is F(e) with e
\* evaluated once, however often F uses it
The(S) == CHOOSE x \in S : TRUE

RECURSIVE Str(_)
\* the Go string made of a sequence of characters
Str(s) == IF s = <<>> THEN "" ELSE s[1] \o Str(Tail(s))

-----------------------------------------------------------------------------
(* package fmt, scanning (fmt.Scan, fmt.Scanln, fmt.Scanf on os.Stdin).     *)

eofRune == "EOF"
NoErr == ""
Digits == {"0", "1", "2", "3", "4", "5", "6", "7", "8", "9"}

IsSpace(r) == r \in {" ", "\t", "\n", "\r"}

\* the rune at stream index p, or eofRune past the end of what is available
ReadAt(s, p) == IF p <= Len(s) THEN s[p] ELSE eofRune

RECURSIVE SkipSpace(_, _, _)
\* ss.SkipSpace: skip blanks; a newline is a blank only when nlIsSpace
SkipSpace(s, p, nlIsSpace) ==
    LET r == ReadAt(s, p) IN
    IF r = eofRune THEN [pos |-> p, hw |-> p, err |-> NoErr]
    ELSE IF r = "\n"
         THEN IF nlIsSpace THEN SkipSpace(s, p + 1, nlIsSpace)
              ELSE [pos |-> p + 1, hw |-> p, err |-> "unexpected newline"]
    ELSE IF ~IsSpace(r) THEN [pos |-> p, hw |-> p, err |-> NoErr]   \* UnreadRune
    ELSE SkipSpace(s, p + 1, nlIsSpace)

RECURSIVE tokenEnd(_, _)
\* ss.token(true, notSpace): index of the rune that ends the token
tokenEnd(s, p) ==
    LET r == ReadAt(s, p) IN
    IF r = eofRune \/ IsSpace(r) THEN p ELSE tokenEnd(s, p + 1)

\* ss.convertString for verbs 'v' and 's': the next whitespace-delimited word
convertString(s, p, nlIsSpace) ==
    The({ IF sk.err # NoErr
          THEN [ok |-> FALSE, str |-> <<>>, pos |-> sk.pos, hw |-> sk.hw,
                err |-> sk.err]
          ELSE IF ReadAt(s, sk.pos) = eofRune      \* notEOF: panic(io.EOF)
          THEN [ok |-> FALSE, str |-> <<>>, pos |-> sk.pos, hw |-> sk.pos,
                err |-> "EOF"]
          ELSE The({ [ok |-> TRUE, str |-> SubSeq(s, sk.pos, e - 1), pos |-> e,
                      hw |-> e, err |-> NoErr] : e \in {tokenEnd(s, sk.pos)} })
        : sk \in {SkipSpace(s, p, nlIsSpace)} })

RECURSIVE scanArgs(_, _, _, _)
\* the loop of ss.doScan over k *string operands; vals are the operands stored
scanArgs(s, p, k, nlIsSpace) ==
    IF k = 0 THEN [vals |-> <<>>, pos |-> p, hw |-> 0, err |-> NoErr]
    ELSE The({ IF ~one.ok
               THEN [vals |-> <<>>, pos |-> one.pos, hw |-> one.hw, err |-> one.err]
               ELSE The({ [vals |-> <<one.str>> \o rest.vals, pos |-> rest.pos,
                           hw |-> Max(one.hw, rest.hw), err |-> rest.err]
                        : rest \in {scanArgs(s, one.pos, k - 1, nlIsSpace)} })
             : one \in {convertString(s, p, nlIsSpace)} })

RECURSIVE expectNewline(_, _)
\* the nlIsEnd loop of ss.doScan: only blanks may precede the newline or EOF;
\* the offending rune has been read and is not put back
expectNewline(s, p) ==
    LET r == ReadAt(s, p) IN
    IF r = "\n" \/ r = eofRune THEN [hw |-> p, err |-> NoErr]
    ELSE IF ~IsSpace(r) THEN [hw |-> p, err |-> "expected newline"]
    ELSE expectNewline(s, p + 1)

\* ss.doScan with k *string operands
doScan(s, k, nlIsSpace, nlIsEnd) ==
    The({ IF a.err # NoErr \/ ~nlIsEnd
          THEN [vals |-> a.vals, hw |-> a.hw, err |-> a.err]
          ELSE The({ [vals |-> a.vals, hw |-> Max(a.hw, e.hw), err |-> e.err]
                   : e \in {expectNewline(s, a.pos)} })
        : a \in {scanArgs(s, 1, k, nlIsSpace)} })

\* mutant of Scan: a newline is not taken as space between the operands
ScanOneLine(s, k) == doScan(s, k, FALSE, FALSE)

\* fmt.Scan: newlines count as space
Scan(s, k) == doScan(s, k, TRUE, FALSE)

\* fmt.Scanln: stops at a newline, which must follow the last operand
Scanln(s, k) == doScan(s, k, FALSE, TRUE)

RECURSIVE digitsEnd(_, _)
\* the loop "for s.accept(digits)" of ss.scanNumber
digitsEnd(s, p) == IF ReadAt(s, p) \in Digits THEN digitsEnd(s, p + 1) ELSE p

DigitVal(d) == CASE d = "0" -> 0 [] d = "1" -> 1 [] d = "2" -> 2 [] d = "3" -> 3
                 [] d = "4" -> 4 [] d = "5" -> 5 [] d = "6" -> 6 [] d = "7" -> 7
                 [] d = "8" -> 8 [] d = "9" -> 9

RECURSIVE ParseUint(_)
\* strconv.ParseInt on a string of decimal digits
ParseUint(ds) ==
    IF ds = <<>> THEN 0
    ELSE 10 * ParseUint(SubSeq(ds, 1, Len(ds) - 1)) + DigitVal(ds[Len(ds)])

\* ss.scanInt for verb 'd'
scanInt(s, p) ==
    The({ IF sk.err # NoErr
          THEN [ok |-> FALSE, val |-> 0, pos |-> sk.pos, hw |-> sk.hw, err |-> sk.err]
          ELSE IF ReadAt(s, sk.pos) = eofRune
          THEN [ok |-> FALSE, val |-> 0, pos |-> sk.pos, hw |-> sk.pos, err |-> "EOF"]
          ELSE LET signed == ReadAt(s, sk.pos) \in {"+", "-"}     \* s.accept(sign)
                   p1 == IF signed THEN sk.pos + 1 ELSE sk.pos
               IN  IF ReadAt(s, p1) = eofRune
                   THEN [ok |-> FALSE, val |-> 0, pos |-> p1, hw |-> p1,
                         err |-> "EOF"]
                   ELSE IF ReadAt(s, p1) \notin Digits
                   THEN [ok |-> FALSE, val |-> 0, pos |-> p1, hw |-> p1,
                         err |-> "expected integer"]
                   ELSE The({ LET mag == ParseUint(SubSeq(s, p1, e - 1)) IN
                              [ok |-> TRUE,
                               val |-> IF ReadAt(s, sk.pos) = "-" THEN -mag ELSE mag,
                               pos |-> e, hw |-> e, err |-> NoErr]
                            : e \in {digitsEnd(s, p1)} })
        : sk \in {SkipSpace(s, p, FALSE)} })

RECURSIVE blanksEnd(_, _)
\* "for isSpace(inputc) && inputc != '\n'" of ss.advance
blanksEnd(s, p) ==
    LET r == ReadAt(s, p) IN
    IF r # eofRune /\ IsSpace(r) /\ r # "\n" THEN blanksEnd(s, p + 1) ELSE p

\* ss.advance over a lone space of the format: one or more blanks, or EOF
advanceSpace(s, p) ==
    LET r == ReadAt(s, p) IN
    IF ~IsSpace(r) /\ r # eofRune
    THEN [pos |-> p + 1, hw |-> p, err |-> "expected space in input to match format"]
    ELSE IF r = "\n"
    THEN [pos |-> p + 1, hw |-> p, err |-> "newline in input does not match format"]
    ELSE The({ [pos |-> q, hw |-> q, err |-> NoErr] : q \in {blanksEnd(s, p)} })

\* mutant of Scanf_d_s: a scan that ends in an error stores no operand
Scanf_d_s_AllOrNothing(s) ==
    The({ IF ~i.ok
          THEN [n |-> 0, age |-> 0, city |-> <<>>, hw |-> i.hw, err |-> i.err]
          ELSE The({ IF sp.err # NoErr
                     THEN [n |-> 0, age |-> 0, city |-> <<>>,
                           hw |-> Max(i.hw, sp.hw), err |-> sp.err]
                     ELSE The({ [n |-> IF c.ok THEN 2 ELSE 0,
                                 age |-> IF c.ok THEN i.val ELSE 0,
                                 city |-> c.str,
                                 hw |-> Max(Max(i.hw, sp.hw), c.hw), err |-> c.err]
                              : c \in {convertString(s, sp.pos, FALSE)} })
                   : sp \in {advanceSpace(s, i.pos)} })
        : i \in {scanInt(s, 1)} })

\* fmt.Scanf("%d %s", &age, &city): ss.doScanf on that format.  n operands have
\* been stored when the scan ends; an operand stored before an error keeps its value
Scanf_d_s(s) ==
    The({ IF ~i.ok
          THEN [n |-> 0, age |-> 0, city |-> <<>>, hw |-> i.hw, err |-> i.err]
          ELSE The({ IF sp.err # NoErr
                     THEN [n |-> 1, age |-> i.val, city |-> <<>>,
                           hw |-> Max(i.hw, sp.hw), err |-> sp.err]
                     ELSE The({ [n |-> IF c.ok THEN 2 ELSE 1, age |-> i.val,
                                 city |-> c.str,
                                 hw |-> Max(Max(i.hw, sp.hw), c.hw), err |-> c.err]
                              : c \in {convertString(s, sp.pos, FALSE)} })
                   : sp \in {advanceSpace(s, i.pos)} })
        : i \in {scanInt(s, 1)} })

\* a scan that tried to read past the available input waits for more of it
NeedsMore(s, r) == r.hw > Len(s)

\* what a scan leaves in the stream
Rest(s, r) == SubSeq(s, Min(r.hw, Len(s)) + 1, Len(s))

-----------------------------------------------------------------------------
(* Output: package fmt writes to standard output (fd 1), the builtin        *)
(* println to standard error (fd 2).                                        *)

RECURSIVE Join(_, _)
\* the strings of a sequence with sep between neighbours
Join(ss, sep) ==
    IF ss = <<>> THEN ""
    ELSE IF Len(ss) = 1 THEN ss[1]
    ELSE ss[1] \o sep \o Join(Tail(ss), sep)

\* mutant of Sprintln: the operands are not separated
SprintlnNoSeparator(args) == Join(args, "") \o "\n"

\* fmt.Sprintln: operands separated by one space, a newline appended
Sprintln(args) == Join(args, " ") \o "\n"

\* mutant of Sprintf: a newline is added after the formatted text
SprintfNewline(pieces) == Join(pieces, "") \o "\n"

\* fmt.Sprintf: the format's literal text and the formatted operands, in the
\* order of the format, with nothing added between or after them
Sprintf(pieces) == Join(pieces, "")

\* %v and %d of an int; %v and %t of a bool
FmtInt(n) == ToString(n)
FmtBool(b) == IF b THEN "true" ELSE "false"

\* one write by routine `by` to file descriptor fd
W(by, fd, text) == [by |-> by, fd |-> fd, text |-> text]

\* fmt.Println(args...) called in routine `by`
Println(by, args) == W(by, 1, Sprintln(args))

\* fmt.Printf(format, args...) called in routine `by`
Printf(by, pieces) == W(by, 1, Sprintf(pieces))

\* the builtin println(args...) called in routine `by`
println(by, args) == W(by, 2, Sprintln(args))

-----------------------------------------------------------------------------
(* package functions (src/functions/main.go).                              *)

\* mutant of GoQuo: the quotient rounded toward minus infinity
GoQuoFloor(a, b) == IF b > 0 THEN a \div b ELSE (-a) \div (-b)

\* Go's integer division truncates toward zero
GoQuo(a, b) == IF (a < 0) = (b < 0) THEN Abs(a) \div Abs(b)
               ELSE -(Abs(a) \div Abs(b))
\* Go's remainder: a - (a / b) * b
GoRem(a, b) == a - GoQuo(a, b) * b

multiplyNumbers(a, b) == a * b

\* mutant of betterMultiplyNumbers: return a * a
betterMultiplyNumbersSquare(a, b) == a * a

betterMultiplyNumbers(a, b) == a * b

\* mutant of swapValues: the results in the order of the parameters
swapValuesUnswapped(a, b) == <<a, b>>

swapValues(a, b) == <<b, a>>

\* the run-time panic of an integer division by zero ends the process
divideNumbers(a, b) ==
    IF b = 0
    THEN [panic |-> "runtime error: integer divide by zero",
          quotient |-> 0, remainder |-> 0]
    ELSE [panic |-> NoErr, quotient |-> GoQuo(a, b), remainder |-> GoRem(a, b)]

addTwoNumbers == <<println("addTwoNumbers", <<"Sum is:", FmtInt(5 + 10)>>)>>

\* mutant of addNumbers: res := a * b
addNumbersProduct(a, b) == <<println("addNumbers", <<"Result is:", FmtInt(a * b)>>)>>

addNumbers(a, b) == <<println("addNumbers", <<"Result is:", FmtInt(a + b)>>)>>

-----------------------------------------------------------------------------
(* package underscoreidentifier (src/unnamed/part_001).  A float64 is the   *)
(* three fields of IEEE 754 binary64: sign (0 or 1), exp (the biased        *)
(* exponent) and frac (the 52 bits of the fraction, most significant        *)
(* first).  A normal number is (-1)^sign * 1.frac * 2^(exp - Bias); zero    *)
(* has exp 0 and frac all 0, and comes with either sign.                    *)

Bias == 1023
FracBits == 52
ZeroFrac == [i \in 1..FracBits |-> 0]

RECURSIVE Pow2(_)
Pow2(n) == IF n = 0 THEN 1 ELSE 2 * Pow2(n - 1)

RECURSIVE Ilogb(_, _)
\* the e with 2^e <= x / y < 2^(e + 1), for integers x > 0 and y > 0
Ilogb(x, y) == IF x >= 2 * y THEN Ilogb(x, 2 * y) + 1
               ELSE IF x < y THEN Ilogb(2 * x, y) - 1
               ELSE 0

RECURSIVE Pow2Mod(_, _)
\* 2^i modulo d, by repeated squaring
Pow2Mod(i, d) ==
    IF i = 0 THEN 1 % d
    ELSE IF i % 2 = 1 THEN (2 * Pow2Mod(i - 1, d)) % d
    ELSE The({ (h * h) % d : h \in {Pow2Mod(i \div 2, d)} })

\* what is left of n / d (d <= n < 2 * d) after i bits of the fraction:
\* n * 2^i modulo d
QuoRem(n, d, i) == (n * Pow2Mod(i, d)) % d

\* the fraction bits of n / d, cut off after FracBits bits
QuoFrac(n, d) == [i \in 1..FracBits |-> (2 * QuoRem(n, d, i - 1)) \div d]

\* the fraction plus one unit in the last place (all 0 when it overflows)
FracSucc(frac) ==
    [i \in 1..FracBits |->
        IF \A j \in (i + 1)..FracBits : frac[j] = 1 THEN 1 - frac[i] ELSE frac[i]]

\* n / d (d <= n < 2 * d) times 2^e, rounded to the nearest float64, a tie to
\* the even fraction
RoundBits(sign, e, n, d) ==
    The({ The({ IF 2 * last < d \/ (2 * last = d /\ frac[FracBits] = 0)
                THEN [sign |-> sign, exp |-> Bias + e, frac |-> frac]
                ELSE IF \A j \in 1..FracBits : frac[j] = 1
                THEN [sign |-> sign, exp |-> Bias + e + 1, frac |-> ZeroFrac]
                ELSE [sign |-> sign, exp |-> Bias + e, frac |-> FracSucc(frac)]
              : last \in {QuoRem(n, d, FracBits)} })
        : frac \in {QuoFrac(n, d)} })

\* the float64 nearest to x / y with the given sign, for integers x >= 0 and
\* y > 0 below 2^15: the rounding of every float64 operation
RoundQuo(sign, x, y) ==
    IF x = 0 THEN [sign |-> sign, exp |-> 0, frac |-> ZeroFrac]
    ELSE The({ RoundBits(sign, e, x * Pow2(Max(-e, 0)), y * Pow2(Max(e, 0)))
             : e \in {Ilogb(x, y)} })

\* f == 0 in Go: true of both zeroes
IsZero(f) == f.exp = 0 /\ f.frac = ZeroFrac

\* f holds an integer smaller than 2^31 in size
IsInt(f) ==
    \/ IsZero(f)
    \/ /\ f.exp - Bias \in 0..30
       /\ \A j \in (f.exp - Bias + 1)..FracBits : f.frac[j] = 0

RECURSIVE BitsVal(_, _)
\* the number written by a leading 1 and the first k bits of frac
BitsVal(frac, k) == IF k = 0 THEN 1 ELSE 2 * BitsVal(frac, k - 1) + frac[k]

\* the size of the integer f holds
IntMag(f) == IF IsZero(f) THEN 0 ELSE BitsVal(f.frac, f.exp - Bias)

\* the float64 of an integer constant (below 2^15 in size)
Float(i) == RoundQuo(IF i < 0 THEN 1 ELSE 0, Abs(i), 1)

\* a / b on float64, for operands that hold integers and b # 0 (the division
\* of divideTwoNumbers comes after its test of b)
FloatQuo(a, b) ==
    CASE IsInt(a) /\ IsInt(b) /\ ~IsZero(b) ->
        RoundQuo((a.sign + b.sign) % 2, IntMag(a), IntMag(b))

\* mutant of FmtFloat: the float formatted as %f formats it
FmtFloatFixed(f) ==
    CASE IsInt(f) -> (IF f.sign = 1 THEN "-" ELSE "") \o ToString(IntMag(f))
                     \o ".000000"

RECURSIVE DecDigits(_)
\* the decimal digits of m >= 0, the most significant first
DecDigits(m) == IF m < 10 THEN <<m>> ELSE Append(DecDigits(m \div 10), m % 10)

RECURSIVE TrimZeros(_)
\* the digits without the zeroes at their end
TrimZeros(ds) ==
    IF Len(ds) > 1 /\ ds[Len(ds)] = 0 THEN TrimZeros(SubSeq(ds, 1, Len(ds) - 1))
    ELSE ds

RECURSIVE DigitStr(_)
DigitStr(ds) == IF ds = <<>> THEN "" ELSE ToString(Head(ds)) \o DigitStr(Tail(ds))

\* strconv's %e with the shortest digits, for an integer m > 0: d.ddde+NN
FmtExp(m) ==
    The({ The({ ToString(ds[1])
                \o (IF Len(ds) > 1 THEN "." \o DigitStr(Tail(ds)) ELSE "")
                \o "e+" \o (IF x < 10 THEN "0" ELSE "") \o ToString(x)
              : x \in {Len(all) - 1} })
        : all \in {DecDigits(m)}, ds \in {TrimZeros(DecDigits(m))} })

\* %v of a float64 that holds an integer (the only floats the demo prints),
\* which is strconv's %g with the shortest digits: the digits of the integer
\* below 10^6 and the exponent form from there on, after a minus sign when
\* the sign bit is set, -0 included
FmtFloat(f) ==
    CASE IsInt(f) ->
        (IF f.sign = 1 THEN "-" ELSE "")
        \o (IF IntMag(f) < 1000000 THEN ToString(IntMag(f)) ELSE FmtExp(IntMag(f)))

Nil == [isNil |-> TRUE, msg |-> ""]
Errorf(msg) == [isNil |-> FALSE, msg |-> msg]

\* mutant of divideTwoNumbers: the zero divisor is caught but no error returned
divideTwoNumbersNoError(a, b) ==
    IF IsZero(b)
    THEN [result |-> Float(0), err |-> Nil]
    ELSE [result |-> FloatQuo(a, b), err |-> Nil]

divideTwoNumbers(a, b) ==
    IF IsZero(b)
    THEN [result |-> Float(0), err |-> Errorf("division by zero")]
    ELSE [result |-> FloatQuo(a, b), err |-> Nil]

-----------------------------------------------------------------------------
(* The driver, src/main.go.                                                *)

\* mutant of MainCalls: the functions demo is called before the buffered read
MainCallsReordered == <<"PrintHello", "PrintVariables", "ExportedFunction",
                        "PrintlnUseCase", "PrintfUseCase", "UserInput",
                        "LearnFunctions", "UserInputUsingBuffIo",
                        "UnderscoreIdentifierDemo">>

\* the calls of main, in the order of its body
MainCalls == <<"PrintHello", "PrintVariables", "ExportedFunction",
               "PrintlnUseCase", "PrintfUseCase", "UserInput",
               "UserInputUsingBuffIo", "LearnFunctions",
               "UnderscoreIdentifierDemo">>

\* where main goes when the routine returns
After(routine) ==
    LET i == CHOOSE j \in 1..Len(MainCalls) : MainCalls[j] = routine IN
    IF i = Len(MainCalls) THEN "done" ELSE MainCalls[i + 1]

\* mutant of MainBanner: the banner of the user-input section is not printed
MainBannerNoUserInput(routine) ==
    CASE routine = "PrintHello" -> <<Println("main", <<"Hello From Vaibhav!">>)>>
      [] routine = "PrintVariables" ->
             <<Println("main", <<"----- Variables Demo -----">>)>>
      [] routine = "PrintlnUseCase" ->
             <<Println("main", <<"Difference between Println and Printf">>)>>
      [] OTHER -> <<>>

\* what main itself prints right before it calls the routine
MainBanner(routine) ==
    CASE routine = "PrintHello" -> <<Println("main", <<"Hello From Vaibhav!">>)>>
      [] routine = "PrintVariables" ->
             <<Println("main", <<"----- Variables Demo -----">>)>>
      [] routine = "PrintlnUseCase" ->
             <<Println("main", <<"Difference between Println and Printf">>)>>
      [] routine = "UserInput" ->
             <<Println("main", <<"----- User Input Demo -----">>)>>
      [] OTHER -> <<>>

\* main calls the routine: its banner, then the routine's writes
Enter(routine, lines) ==
    /\ pc = routine
    /\ calls' = Append(calls, routine)
    /\ out' = out \o MainBanner(routine) \o lines

\* the chunks of input a user may type
Chunks == { <<"a", " ", "b", "\n">>,
            <<"a", "\n">>,
            <<"2", " ", "c", "\n">>,
            <<"2", "\n">>,
            <<"\n">>,
            <<"a", " ", "b", "2", " ", "c", "\n">> }

readerVars == <<first_name, last_name, full_name, age, city, adress, numProcessed>>
loopVars == <<numbers, sum, idx>>
inVars == <<stdin, eof, typed, tty>>

\* the positions of the run at which the process reads standard input
ReadPoints == {"Scan", "Scanln", "Scanf", "ReadString"}

\* the positions after the last read: what is typed there is never read
PastReads == {"LearnFunctions", "UnderscoreIdentifierDemo", "range", "done", "panic"}

\* the user types a chunk; it is appended to what the process has not read,
\* of which there is never more than MaxUnread characters.
\* tty records (it is read by no step of the process) whether a chunk was
\* ever typed ahead, that is while no read was pending, and the first chunk
\* typed while the read of the address was pending
Type(chunk) ==
    /\ ~eof
    /\ typed < MaxChunks
    /\ Len(stdin) + Len(chunk) <= MaxUnread
    /\ pc \notin PastReads
    /\ stdin' = stdin \o chunk
    /\ typed' = typed + 1
    /\ tty' = [ahead |-> tty.ahead \/ pc \notin ReadPoints,
               answer |-> IF pc = "ReadString" /\ tty.answer = <<>> THEN chunk
                          ELSE tty.answer]
    /\ UNCHANGED <<eof, pc, pkg, calls, out, readerVars, loopVars, fnVars, arrVars>>

\* standard input is closed (after the last read nothing can tell)
CloseStdin ==
    /\ ~eof
    /\ pc \notin PastReads
    /\ eof' = TRUE
    /\ UNCHANGED <<stdin, typed, tty, pc, pkg, calls, out, readerVars, loopVars, fnVars,
                   arrVars>>

\* package myUtils is not among the sources; only the call is modelled
PrintHello ==
    /\ Enter("PrintHello", <<>>)
    /\ pc' = After("PrintHello")
    /\ UNCHANGED <<inVars, pkg, readerVars, loopVars, fnVars, arrVars>>

-----------------------------------------------------------------------------
(* package variables (src/unnamed/part_000).                               *)

PkgInit == [name |-> "Vaibhav", age |-> 25, isDeveloper |-> TRUE,
            city |-> "Gurgaon", countryCode |-> 91]

\* mutant of PrintVariablesLines: the lines in the alphabetical order of the labels
PrintVariablesLinesSorted ==
    LET P(args) == Println("PrintVariables", args) IN
    << P(<<"Age:", FmtInt(pkg.age)>>),
       P(<<"City:", pkg.city>>),
       P(<<"Country:", "India">>),
       P(<<"Country Code:", FmtInt(pkg.countryCode)>>),
       P(<<"Is Developer:", FmtBool(pkg.isDeveloper)>>),
       P(<<"Language:", "Go">>),
       P(<<"Name:", pkg.name>>),
       P(<<"Pi:", "3.14">>),
       P(<<"Salary:", "75000.5">>),
       P(<<"State:", "Haryana">>),
       P(<<"Take:", FmtInt(19)>>) >>

PrintVariablesLines ==
    LET P(args) == Println("PrintVariables", args) IN
    << P(<<"Name:", pkg.name>>),
       P(<<"Age:", FmtInt(pkg.age)>>),
       P(<<"Is Developer:", FmtBool(pkg.isDeveloper)>>),
       P(<<"Country:", "India">>),
       P(<<"State:", "Haryana">>),
       P(<<"Salary:", "75000.5">>),
       P(<<"City:", pkg.city>>),
       P(<<"Country Code:", FmtInt(pkg.countryCode)>>),
       P(<<"Pi:", "3.14">>),
       P(<<"Language:", "Go">>),
       P(<<"Take:", FmtInt(19)>>) >>

\* mutant of PrintVariables: "age = 19" where the code declares take := 19
PrintVariablesReassign ==
    /\ Enter("PrintVariables", PrintVariablesLines)
    /\ pc' = After("PrintVariables")
    /\ pkg' = [pkg EXCEPT !.age = 19]
    /\ UNCHANGED <<inVars, readerVars, loopVars, fnVars, arrVars>>

PrintVariables ==
    /\ Enter("PrintVariables", PrintVariablesLines)
    /\ pc' = After("PrintVariables")
    /\ UNCHANGED <<inVars, pkg, readerVars, loopVars, fnVars, arrVars>>

ExportedFunction ==
    /\ Enter("ExportedFunction",
             <<Println("ExportedFunction", <<"This is an exported function.">>)>>)
    /\ pc' = After("ExportedFunction")
    /\ UNCHANGED <<inVars, pkg, readerVars, loopVars, fnVars, arrVars>>

-----------------------------------------------------------------------------
(* PrintlnUseCase and PrintfUseCase (src/main.go).  The constants are       *)
(* name = "Vaibhav", age = 25, salary = 50000.50, start_char = 'V': %v of   *)
(* the float is 50000.5, of the rune its code point 86.                     *)

PrintlnUseCaseLines ==
    LET P(args) == Println("PrintlnUseCase", args) IN
    << P(<<"----------------------Println Use Case----------------------">>),
       P(<<"Name:", "Vaibhav">>),
       P(<<"Age:", FmtInt(25)>>),
       P(<<"Salary:", "50000.5">>),
       P(<<"Start Character:", FmtInt(86)>>),
       P(<<"----------------------">>),
       P(<<"Vaibhav", FmtInt(25), "50000.5", FmtInt(86)>>) >>

PrintlnUseCase ==
    /\ Enter("PrintlnUseCase", PrintlnUseCaseLines)
    /\ pc' = After("PrintlnUseCase")
    /\ UNCHANGED <<inVars, pkg, readerVars, loopVars, fnVars, arrVars>>

PrintfUseCaseLines ==
    LET F(pieces) == Printf("PrintfUseCase", pieces) IN
    << Println("PrintfUseCase",
               <<"----------------------Printf Use Case----------------------">>),
       F(<<"Name: ", "Vaibhav", "\n">>),
       F(<<"Age: ", FmtInt(25), "\n">>),
       F(<<"Salary : ", "50000.500", "\n">>),
       F(<<"Start Character: ", "V", "\n">>),
       F(<<"----------------------\n">>),
       F(<<"Combined Output without spaces:\n">>),
       F(<<"Vaibhav", FmtInt(25), "50000.50", "V", "\n">>),
       F(<<"Combined Output with spaces:\n">>),
       F(<<"Vaibhav", " ", FmtInt(25), " ", "50000.50", " ", "V">>) >>

PrintfUseCase ==
    /\ Enter("PrintfUseCase", PrintfUseCaseLines)
    /\ pc' = After("PrintfUseCase")
    /\ UNCHANGED <<inVars, pkg, readerVars, loopVars, fnVars, arrVars>>

-----------------------------------------------------------------------------
(* package userinput (src/userInput/main.go).  A read that needs more input *)
(* than has been typed waits, unless standard input has been closed.        *)

\* mutant of UserInput: the prompt "Enter your name:" is not printed
UserInputNoPrompt ==
    /\ Enter("UserInput",
             << Println("UserInput", <<"-----Taking user input using Scan-----">>) >>)
    /\ pc' = "Scan"
    /\ UNCHANGED <<inVars, pkg, readerVars, loopVars, fnVars, arrVars>>

UserInput ==
    /\ Enter("UserInput",
             << Println("UserInput", <<"-----Taking user input using Scan-----">>),
                Println("UserInput", <<"Enter your name:">>) >>)
    /\ pc' = "Scan"
    /\ UNCHANGED <<inVars, pkg, readerVars, loopVars, fnVars, arrVars>>

\* the k-th operand of a scan, or the zero value when it was not stored
Operand(r, k) == IF Len(r.vals) >= k THEN Str(r.vals[k]) ELSE ""

\* fmt.Scan(&first_name, &last_name) reads standard input one byte at a time
\* and stores an operand as soon as its word has ended; numProcessed operands
\* are stored.  What is typed arrives in whole lines (Chunks), so a word that
\* has begun has also ended.  Here the call runs out of input while standard
\* input is open: it has taken all there was, stored the operand whose word
\* it found, and waits in the read for more
UserInputScanWaits ==
    \E r \in {Scan(stdin, 2 - numProcessed)} :
    /\ pc = "Scan"
    /\ stdin # <<>>
    /\ NeedsMore(stdin, r)
    /\ ~eof
    /\ stdin' = <<>>
    /\ numProcessed' = numProcessed + Len(r.vals)
    /\ first_name' = IF numProcessed = 0 /\ Len(r.vals) >= 1 THEN Operand(r, 1)
                     ELSE first_name
    /\ UNCHANGED <<eof, typed, tty, pc, pkg, calls, out, last_name, full_name, age,
                   city, adress, loopVars, fnVars, arrVars>>

\* fmt.Scan(&first_name, &last_name) returns, and the lines up to the next
\* read: the operands not yet stored are taken from what has been typed since
UserInputScan ==
    \E r \in {Scan(stdin, 2 - numProcessed)} :
    /\ pc = "Scan"
    /\ ~NeedsMore(stdin, r) \/ eof
    /\ stdin' = Rest(stdin, r)
    /\ first_name' = IF numProcessed = 0 THEN Operand(r, 1) ELSE first_name
    /\ last_name' = Operand(r, 2 - numProcessed)
    /\ numProcessed' = 0
    /\ out' = out \o
         << Println("UserInput",
                    <<"Hello, " \o first_name' \o " " \o last_name' \o "!">>),
            Println("UserInput", <<"-----Taking user input using Scanln-----">>),
            Println("UserInput", <<"Enter your full name:">>) >>
    /\ pc' = "Scanln"
    /\ UNCHANGED <<eof, typed, tty, pkg, calls, full_name, age, city, adress, loopVars,
                   fnVars, arrVars>>

\* fmt.Scanln(&full_name) and the lines up to the next read
UserInputScanln ==
    \E r \in {Scanln(stdin, 1)} :
    /\ pc = "Scanln"
    /\ ~NeedsMore(stdin, r) \/ eof
    /\ stdin' = Rest(stdin, r)
    /\ full_name' = Operand(r, 1)
    /\ out' = out \o
         << Println("UserInput", <<"Hello, " \o full_name' \o "!">>),
            Println("UserInput", <<"-----Taking user input using Scanf-----">>),
            Println("UserInput", <<"Enter your age and city (e.g., 25 NewYork):">>) >>
    /\ pc' = "Scanf"
    /\ UNCHANGED <<eof, typed, tty, pkg, calls, first_name, last_name, age, city, adress, numProcessed,
                   loopVars, fnVars, arrVars>>

\* fmt.Scanf("%d %s", &age, &city) and the Printf that ends UserInput
UserInputScanf ==
    \E r \in {Scanf_d_s(stdin)} :
    /\ pc = "Scanf"
    /\ ~NeedsMore(stdin, r) \/ eof
    /\ stdin' = Rest(stdin, r)
    /\ age' = IF r.n >= 1 THEN r.age ELSE 0
    /\ city' = IF r.n >= 2 THEN Str(r.city) ELSE ""
    /\ out' = Append(out,
                Printf("UserInput", <<"You are ", FmtInt(age'), " years old and live in ",
                                      city', ".\n">>))
    /\ pc' = After("UserInput")
    /\ UNCHANGED <<eof, typed, tty, pkg, calls, first_name, last_name, full_name, adress, numProcessed,
                   loopVars, fnVars, arrVars>>

UserInputUsingBuffIo ==
    /\ Enter("UserInputUsingBuffIo",
             << Println("UserInputUsingBuffIo",
                        <<"-----Taking user input using Buffio-----">>),
                Println("UserInputUsingBuffIo", <<"Enter your address:">>) >>)
    /\ pc' = "ReadString"
    /\ UNCHANGED <<inVars, pkg, readerVars, loopVars, fnVars, arrVars>>

RECURSIVE delimIndex(_, _, _)
\* index of the first delim at or after p, or 0 when there is none
delimIndex(s, p, delim) ==
    IF p > Len(s) THEN 0
    ELSE IF s[p] = delim THEN p ELSE delimIndex(s, p + 1, delim)

\* mutant of ReadString: the delimiter is read but not returned
ReadStringTrim(s, delim) ==
    LET i == delimIndex(s, 1, delim) IN
    IF i > 0 THEN [line |-> SubSeq(s, 1, i - 1), err |-> NoErr, found |-> TRUE]
    ELSE [line |-> s, err |-> "EOF", found |-> FALSE]

\* bufio.Reader.ReadString: the input up to and including the first delim; at
\* end of input without one, what there is together with io.EOF
ReadString(s, delim) ==
    LET i == delimIndex(s, 1, delim) IN
    IF i > 0 THEN [line |-> SubSeq(s, 1, i), err |-> NoErr, found |-> TRUE]
    ELSE [line |-> s, err |-> "EOF", found |-> FALSE]

\* adress, _ := input.ReadString('\n') and the Println that follows.  The
\* buffered reader fills its buffer with what one read(2) gives it, until the
\* delimiter is there: a terminal gives the line, a pipe all the input there
\* is, and the n characters taken are lost to later reads of standard input
UserInputReadString ==
    \E r \in {ReadString(stdin, "\n")} :
    \E n \in {Len(r.line), Len(stdin)} :
    /\ pc = "ReadString"
    /\ r.found \/ eof
    /\ stdin' = SubSeq(stdin, n + 1, Len(stdin))
    /\ adress' = Str(r.line)
    /\ out' = Append(out,
                Println("UserInputUsingBuffIo", <<"Your address is: " \o adress'>>))
    /\ pc' = After("UserInputUsingBuffIo")
    /\ UNCHANGED <<eof, typed, tty, pkg, calls, first_name, last_name, full_name, age, city, numProcessed,
                   loopVars, fnVars, arrVars>>

-----------------------------------------------------------------------------
(* LearnFunctions (src/functions/main.go).                                 *)

\* mutant of DivideNumbersArgs: a zero divisor
DivideNumbersArgsZero == <<17, 0>>

\* the arguments LearnFunctions gives divideNumbers
DivideNumbersArgs == <<17, 5>>

\* the writes of LearnFunctions; a panic ends them where it is raised
LearnFunctionsRun ==
    LET P(args) == println("LearnFunctions", args)
        result == multiplyNumbers(5, 6)
        betterResult == betterMultiplyNumbers(7, 8)
        xy == swapValues("Hello", "World")
        qr == divideNumbers(DivideNumbersArgs[1], DivideNumbersArgs[2])
        head == << P(<<"----- Function Demo -----">>) >> \o addTwoNumbers
                  \o addNumbers(20, 30) \o
                << P(<<"Multiplication Result is:", FmtInt(result)>>),
                   P(<<"Better Multiplication Result is:", FmtInt(betterResult)>>),
                   P(<<"After Swapping: x =", xy[1], ", y =", xy[2]>>) >>
    IN  IF qr.panic # NoErr
        THEN [lines |-> head, panic |-> qr.panic]
        ELSE [lines |-> Append(head, P(<<"Quotient:", FmtInt(qr.quotient),
                                        ", Remainder:", FmtInt(qr.remainder)>>)),
              panic |-> NoErr]

LearnFunctions ==
    /\ Enter("LearnFunctions", LearnFunctionsRun.lines)
    /\ pc' = IF LearnFunctionsRun.panic # NoErr THEN "panic"
             ELSE After("LearnFunctions")
    /\ UNCHANGED <<inVars, pkg, readerVars, loopVars, fnVars, arrVars>>

-----------------------------------------------------------------------------
(* UnderscoreIdentifierDemo and ignoreIndexInLoop (src/unnamed/part_001).   *)

\* mutant of CheckedDivision: err is not looked at, the result is printed
CheckedDivisionIgnoresError(a, b) ==
    LET r == divideTwoNumbers(a, b) IN
    <<Println("UnderscoreIdentifierDemo",
              <<"Result of division is:", FmtFloat(r.result)>>)>>

\* c, err := divideTwoNumbers(a, b) followed by the if/else on err
CheckedDivision(a, b) ==
    LET r == divideTwoNumbers(a, b) IN
    IF ~r.err.isNil
    THEN <<Println("UnderscoreIdentifierDemo", <<"Error occurred:", r.err.msg>>)>>
    ELSE <<Println("UnderscoreIdentifierDemo",
                   <<"Result of division is:", FmtFloat(r.result)>>)>>

\* mutant of NumbersLiteral: the last element comes from what UserInput read
NumbersFromInput == <<10, 20, 30, 40, 50 + age>>

\* the slice literal of ignoreIndexInLoop
NumbersLiteral == <<10, 20, 30, 40, 50>>

\* mutant of LoopBody: sum = value
LoopBodyOverwrite(s, value) == value

\* the body of the range loop: sum += value
LoopBody(s, value) == s + value

\* the writes of the demo up to the loop of ignoreIndexInLoop: a, _ :=
\* divideTwoNumbers(10, 2) and b, _ := divideTwoNumbers(10, 0) with their
\* prints, the checked call, and the banner of the loop
UnderscoreIdentifierDemoLines ==
    LET P(args) == Println("UnderscoreIdentifierDemo", args)
        a == divideTwoNumbers(Float(10), Float(2)).result
        b == divideTwoNumbers(Float(10), Float(0)).result
    IN  << P(<<"----- Underscore Identifier Demo -----">>),
           P(<<"Result of division is:", FmtFloat(a)>>),
           P(<<"Result of division is:", FmtFloat(b)>>) >>
        \o CheckedDivision(Float(10), Float(0)) \o
        << Println("ignoreIndexInLoop",
                   <<"----- Ignoring Index in Loop Demo -----">>) >>

\* the demo up to the first iteration of the loop of ignoreIndexInLoop
UnderscoreIdentifierDemo ==
    /\ Enter("UnderscoreIdentifierDemo", UnderscoreIdentifierDemoLines)
    /\ numbers' = NumbersLiteral
    /\ sum' = 0
    /\ idx' = 0
    /\ pc' = "range"
    /\ UNCHANGED <<inVars, pkg, readerVars, fnVars, arrVars>>

\* one iteration of "for _, value := range numbers"
RangeNext ==
    /\ pc = "range"
    /\ idx < Len(numbers)
    /\ sum' = LoopBody(sum, numbers[idx + 1])
    /\ idx' = idx + 1
    /\ UNCHANGED <<inVars, pc, pkg, calls, out, readerVars, numbers, fnVars, arrVars>>

\* the range is exhausted: print the sum, return to main
RangeEnd ==
    /\ pc = "range"
    /\ idx >= Len(numbers)
    /\ out' = Append(out, Println("ignoreIndexInLoop",
                                  <<"Sum of numbers is:", FmtInt(sum)>>))
    /\ pc' = After("UnderscoreIdentifierDemo")
    /\ UNCHANGED <<inVars, pkg, calls, readerVars, loopVars, fnVars, arrVars>>

-----------------------------------------------------------------------------
(* The run of the driver.                                                  *)

FnIdle == call = [fn |-> "none"]
ArrIdle == /\ apc = "idle" /\ arr1 = <<>> /\ arr2 = <<>> /\ arr3 = <<>>
           /\ arr4 = <<>> /\ arr = <<>> /\ arr5 = <<>> /\ assigned = 0
           /\ writes = <<>>

MainIdle ==
    /\ stdin = <<>> /\ eof = FALSE /\ typed = 0
    /\ tty = [ahead |-> FALSE, answer |-> <<>>]
    /\ pkg = PkgInit
    /\ calls = <<>> /\ out = <<>>
    /\ first_name = "" /\ last_name = "" /\ full_name = ""
    /\ age = 0 /\ city = "" /\ adress = ""
    /\ numProcessed = 0
    /\ numbers = <<>> /\ sum = 0 /\ idx = 0

Init == /\ MainIdle /\ pc = MainCalls[1] /\ FnIdle /\ ArrIdle

\* a step of the process
Step ==
    \/ PrintHello
    \/ PrintVariables
    \/ ExportedFunction
    \/ PrintlnUseCase
    \/ PrintfUseCase
    \/ UserInput
    \/ UserInputScanWaits
    \/ UserInputScan
    \/ UserInputScanln
    \/ UserInputScanf
    \/ UserInputUsingBuffIo
    \/ UserInputReadString
    \/ LearnFunctions
    \/ UnderscoreIdentifierDemo
    \/ RangeNext
    \/ RangeEnd

Next ==
    \/ Step
    \/ \E chunk \in Chunks : Type(chunk)
    \/ CloseStdin

Spec == Init /\ [][Next]_vars

\* the process keeps running, and its standard input is eventually closed
LiveSpec == Spec /\ WF_vars(Step) /\ WF_vars(CloseStdin)

-----------------------------------------------------------------------------
(* FnSpec: the functions applied to arguments from bounded sets.  A run is  *)
(* one call; swapValues may then be applied once more, to its own result.   *)

FloatArgs == (-MaxFloatArg)..MaxFloatArg
IntArgs == (-MaxIntArg)..MaxIntArg
StringArgs == {"", "Hello", "World"}

FnInit == /\ MainIdle /\ pc = "idle" /\ FnIdle /\ ArrIdle

CallDivideTwoNumbers ==
    \E a \in FloatArgs, b \in FloatArgs :
        /\ call.fn = "none"
        /\ call' = [fn |-> "divideTwoNumbers", n |-> 1, a |-> a, b |-> b,
                    ret |-> divideTwoNumbers(Float(a), Float(b))]
        /\ UNCHANGED <<mainVars, arrVars>>

CallDivideNumbers ==
    \E a \in IntArgs, b \in IntArgs :
        /\ call.fn = "none"
        /\ call' = [fn |-> "divideNumbers", n |-> 1, a |-> a, b |-> b,
                    ret |-> divideNumbers(a, b)]
        /\ UNCHANGED <<mainVars, arrVars>>

CallMultiplyNumbers ==
    \E a \in IntArgs, b \in IntArgs :
        /\ call.fn = "none"
        /\ call' = [fn |-> "multiplyNumbers", n |-> 1, a |-> a, b |-> b,
                    ret |-> multiplyNumbers(a, b)]
        /\ UNCHANGED <<mainVars, arrVars>>

CallBetterMultiplyNumbers ==
    \E a \in IntArgs, b \in IntArgs :
        /\ call.fn = "none"
        /\ call' = [fn |-> "betterMultiplyNumbers", n |-> 1, a |-> a, b |-> b,
                    ret |-> betterMultiplyNumbers(a, b)]
        /\ UNCHANGED <<mainVars, arrVars>>

CallSwapValues ==
    \E a \in StringArgs, b \in StringArgs :
        /\ call.fn = "none"
        /\ call' = [fn |-> "swapValues", n |-> 1, a |-> a, b |-> b,
                    ret |-> swapValues(a, b)]
        /\ UNCHANGED <<mainVars, arrVars>>

\* the checked call of UnderscoreIdentifierDemo with any dividend and any
\* divisor that is zero or divides it (a quotient FmtFloat formats)
CallCheckedDivision ==
    \E a \in FloatArgs, b \in FloatArgs :
        /\ call.fn = "none"
        /\ b = 0 \/ \E q \in FloatArgs : a = q * b
        /\ call' = [fn |-> "CheckedDivision", n |-> 1, a |-> a, b |-> b,
                    ret |-> CheckedDivision(Float(a), Float(b))]
        /\ UNCHANGED <<mainVars, arrVars>>

\* x, y = swapValues(x, y) on the pair the last call returned
CallSwapValuesAgain ==
    /\ call.fn = "swapValues"
    /\ call.n = 1
    /\ call' = [fn |-> "swapValues", n |-> 2, a |-> call.ret[1], b |-> call.ret[2],
                ret |-> swapValues(call.ret[1], call.ret[2])]
    /\ UNCHANGED <<mainVars, arrVars>>

FnNext ==
    \/ CallDivideTwoNumbers
    \/ CallDivideNumbers
    \/ CallMultiplyNumbers
    \/ CallBetterMultiplyNumbers
    \/ CallSwapValues
    \/ CallSwapValuesAgain
    \/ CallCheckedDivision

FnSpec == FnInit /\ [][FnNext]_vars

-----------------------------------------------------------------------------
(* ArrSpec: the arrays program (src/unnamed/part_004 main).  A Go array of *)
(* length n is a function on 0..n-1.  The write to the copy, arr5[0] = 100  *)
(* in the program, is taken with any index and any of WriteValues, and up   *)
(* to MaxWrites times.                                                      *)

WriteValues == {100, 1, 7}

\* %v of an [n]int
FmtIntArray(a, n) == "[" \o Join([i \in 1..n |-> FmtInt(a[i - 1])], " ") \o "]"
\* %q of an [n]string
FmtStringArrayQ(a, n) ==
    "[" \o Join([i \in 1..n |-> "\"" \o a[i - 1] \o "\""], " ") \o "]"

\* var a [n]T: every element is the zero value of T
ZeroArray(n, zero) == [i \in 0..(n - 1) |-> zero]

\* mutant of ArrayLiteral: the literal's values stored from the last index down
ArrayLiteralReversed(vals) == [i \in 0..(Len(vals) - 1) |-> vals[Len(vals) - i]]

\* [n]T{...}: the literal's values in order, from index 0
ArrayLiteral(vals) == [i \in 0..(Len(vals) - 1) |-> vals[i + 1]]

\* mutant of IndexAssign: the value is stored at index i and at every later one
IndexAssignFill(a, i, v) == [j \in DOMAIN a |-> IF j >= i THEN v ELSE a[j]]

\* mutant of IndexAssign: the value is stored and the array grows by an element
IndexAssignGrow(a, i, v) ==
    [j \in DOMAIN a \cup {Cardinality(DOMAIN a)} |->
        IF j = i \/ j \notin DOMAIN a THEN v ELSE a[j]]

\* a[i] = v
IndexAssign(a, i, v) == [a EXCEPT ![i] = v]

\* mutant of AssignCopy: the two names share one array, as slices would
AssignCopyShared(original, copy, i, v) ==
    [original |-> IndexAssign(original, i, v), copy |-> IndexAssign(copy, i, v)]

\* copy[i] = v where copy := original was made before: the arrays after it
AssignCopy(original, copy, i, v) ==
    [original |-> original, copy |-> IndexAssign(copy, i, v)]

ArrInit == /\ MainIdle /\ pc = "idle" /\ FnIdle
           /\ apc = "declare" /\ arr1 = <<>> /\ arr2 = <<>> /\ arr3 = <<>>
           /\ arr4 = <<>> /\ arr = <<>> /\ arr5 = <<>> /\ assigned = 0
           /\ writes = <<>>

arrFrame == <<stdin, eof, typed, tty, pc, pkg, calls, first_name, last_name, full_name,
              age, city, adress, numProcessed, numbers, sum, idx, call>>

\* var arr1 [5]int, var arr2 [3]string, and the two prints
ArrDeclare ==
    /\ apc = "declare"
    /\ arr1' = ZeroArray(5, 0)
    /\ arr2' = ZeroArray(3, "")
    /\ out' = out \o << Println("main", <<FmtIntArray(arr1', 5)>>),
                        Printf("main", <<FmtStringArrayQ(arr2', 3), "\n">>) >>
    /\ apc' = "assign"
    /\ UNCHANGED <<arrFrame, arr3, arr4, arr, arr5, assigned, writes>>

\* the indexed assignments of lines 16-21, in order: array, index, value
ArrAssignments == << <<"arr1", 0, 10>>, <<"arr1", 1, 20>>, <<"arr1", 2, 30>>,
                     <<"arr2", 0, "Hello">>, <<"arr2", 1, "World">> >>

\* the next of the assignments arr1[0] = 10 ... arr2[1] = "World"
ArrAssign ==
    /\ apc = "assign"
    /\ assigned < Len(ArrAssignments)
    /\ LET st == ArrAssignments[assigned + 1] IN
         /\ arr1' = IF st[1] = "arr1" THEN IndexAssign(arr1, st[2], st[3]) ELSE arr1
         /\ arr2' = IF st[1] = "arr2" THEN IndexAssign(arr2, st[2], st[3]) ELSE arr2
    /\ assigned' = assigned + 1
    /\ UNCHANGED <<arrFrame, out, apc, arr3, arr4, arr, arr5, writes>>

\* the prints of arr1 and arr2 that follow the assignments
ArrAssigned ==
    /\ apc = "assign"
    /\ assigned = Len(ArrAssignments)
    /\ out' = out \o << Println("main", <<FmtIntArray(arr1, 5)>>),
                        Printf("main", <<FmtStringArrayQ(arr2, 3), "\n">>) >>
    /\ apc' = "literals"
    /\ UNCHANGED <<arrFrame, arr1, arr2, arr3, arr4, arr, arr5, assigned, writes>>

\* arr3, arr4 and the two-dimensional arr, each printed
ArrLiterals ==
    /\ apc = "literals"
    /\ arr3' = ArrayLiteral(<<1, 2, 3, 4, 5, 6>>)
    /\ arr4' = ArrayLiteral(<<"Go", "is", "awesome">>)
    /\ arr' = ArrayLiteral(<<ArrayLiteral(<<1, 2, 3>>), ArrayLiteral(<<4, 5, 6>>)>>)
    /\ out' = out \o
         << Println("main", <<FmtIntArray(arr3', 6)>>),
            Printf("main", <<FmtStringArrayQ(arr4', 3), "\n">>),
            Println("main", <<"[" \o FmtIntArray(arr'[0], 3) \o " "
                                  \o FmtIntArray(arr'[1], 3) \o "]">>) >>
    /\ apc' = "copy"
    /\ UNCHANGED <<arrFrame, arr1, arr2, arr5, assigned, writes>>

\* arr5 := arr3
ArrCopy ==
    /\ apc = "copy"
    /\ arr5' = arr3
    /\ apc' = "write"
    /\ UNCHANGED <<arrFrame, out, arr1, arr2, arr3, arr4, arr, assigned, writes>>

\* arr5[i] = v
ArrWrite(i, v) ==
    /\ apc = "write"
    /\ Len(writes) < MaxWrites
    /\ arr3' = AssignCopy(arr3, arr5, i, v).original
    /\ arr5' = AssignCopy(arr3, arr5, i, v).copy
    /\ writes' = Append(writes, <<i, v>>)
    /\ UNCHANGED <<arrFrame, out, apc, arr1, arr2, arr4, arr, assigned>>

\* the prints of arr3 and arr5, and of len(arr4)
ArrPrint ==
    /\ apc = "write"
    /\ Len(writes) >= 1
    /\ out' = out \o
         << Println("main", <<"arr3:", FmtIntArray(arr3, 6)>>),
            Println("main", <<"arr5:", FmtIntArray(arr5, 6)>>),
            Println("main", <<"Length of arr4:", FmtInt(Cardinality(DOMAIN arr4))>>) >>
    /\ apc' = "done"
    /\ UNCHANGED <<arrFrame, arr1, arr2, arr3, arr4, arr, arr5, assigned, writes>>

ArrNext ==
    \/ ArrDeclare
    \/ ArrAssign
    \/ ArrAssigned
    \/ ArrLiterals
    \/ ArrCopy
    \/ \E i \in 0..5, v \in WriteValues : ArrWrite(i, v)
    \/ ArrPrint

ArrSpec == ArrInit /\ [][ArrNext]_vars

-----------------------------------------------------------------------------
(* The claims.                                                             *)

\* s is an initial segment of full
IsPrefix(s, full) == Len(s) <= Len(full) /\ s = SubSeq(full, 1, Len(s))

RECURSIVE SumFirst(_, _)
\* the sum of the first k elements of a sequence
SumFirst(s, k) == IF k = 0 THEN 0 ELSE SumFirst(s, k - 1) + s[k]

\* the text of the latest write
LastText(o) == o[Len(o)].text

\* the value index j of the copy must hold: the latest value written to it, or
\* the original's when it was never written
RECURSIVE Expected5(_, _, _)
Expected5(ws, j, orig) ==
    IF ws = <<>> THEN orig
    ELSE IF ws[Len(ws)][1] = j THEN ws[Len(ws)][2]
    ELSE Expected5(SubSeq(ws, 1, Len(ws) - 1), j, orig)

\* C1 (ArrSpec): array assignment copies by value.  Once arr5 := arr3 is made,
\* whatever indexed writes arr5 receives, arr3 still reads 1 2 3 4 5 6 and
\* arr5 differs from arr3 at written indices only, where it holds the value
\* last written; after the program's own write arr5[0] = 100, arr5 reads
\* 100 2 3 4 5 6.
C1_CopyByValue ==
    apc \in {"write", "done"} =>
        /\ \A j \in 0..5 : arr3[j] = j + 1
        /\ \A j \in 0..5 : arr5[j] = Expected5(writes, j, j + 1)
        /\ writes = << <<0, 100>> >> =>
               arr5 = ArrayLiteral(<<100, 2, 3, 4, 5, 6>>)

C1_Witness ==
    /\ apc = "done"
    /\ writes = << <<0, 100>> >>
    /\ arr5[0] = 100
    /\ arr3[0] = 1

\* the number written by the bits lo..hi of frac
FracVal(frac, lo, hi) == SumFirst([j \in 1..(hi - lo + 1) |->
                                      frac[lo + j - 1] * Pow2(hi - lo + 1 - j)],
                                  hi - lo + 1)

RECURSIVE Excess(_, _, _, _)
\* n * 2^(13 * k) - m * d, where m is the number written by a leading 1 and
\* the first 13 * k bits of frac; beyond 2 * d in size it could only grow
\* with further bits, and is left as it is
Excess(frac, n, d, k) ==
    IF k = 0 THEN n - d
    ELSE The({ IF Abs(t) > 2 * d THEN t
               ELSE t * Pow2(13) - FracVal(frac, 13 * k - 12, 13 * k) * d
             : t \in {Excess(frac, n, d, k - 1)} })

\* q is the float64 nearest to x / y (integers x > 0, y > 0): a normal number
\* whose distance from x / y is at most half a unit in its last place (a
\* quarter below a power of two, where the floats lie closer), the even
\* fraction at a tie
NearestTo(q, x, y) ==
    /\ q.exp - Bias \in (-12)..12
    /\ DOMAIN q.frac = 1..FracBits
    /\ \A i \in 1..FracBits : q.frac[i] \in {0, 1}
    /\ \E t \in { Excess(q.frac, x * Pow2(Max(Bias - q.exp, 0)),
                         y * Pow2(Max(q.exp - Bias, 0)), FracBits \div 13) } :
           /\ 2 * Abs(t) <= y * Pow2(Max(q.exp - Bias, 0))
           /\ 2 * Abs(t) = y * Pow2(Max(q.exp - Bias, 0)) => q.frac[FracBits] = 0
           /\ (t < 0 /\ q.frac = ZeroFrac) =>
                  4 * Abs(t) <= y * Pow2(Max(q.exp - Bias, 0))

\* the bits of a sequence of hexadecimal digits, four for each
HexBits(hs) == [i \in 1..(4 * Len(hs)) |->
                   (hs[(i + 3) \div 4] \div Pow2(3 - ((i - 1) % 4))) % 2]

\* C2 (FnSpec): divideTwoNumbers(a, b) returns a non-nil error exactly when
\* b == 0; then the result is 0 and the message is the non-empty text
\* "division by zero"; otherwise the error is nil and the result is a / b as
\* float64 division gives it: the float64 nearest to the quotient, with the
\* sign of a zero quotient that of b; it is the quotient itself when b
\* divides a.  (10, 2) gives 5, (1, 3) gives 0x1.5555555555555p-2, (-10, -9)
\* gives 0x1.1c71c71c71c72p+0, and (10, 0) gives 0 with the fault.
C2_DivideTwoNumbers ==
    call.fn = "divideTwoNumbers" =>
        /\ (call.b = 0) <=> ~call.ret.err.isNil
        /\ call.b = 0 =>
               /\ call.ret.result = [sign |-> 0, exp |-> 0, frac |-> ZeroFrac]
               /\ call.ret.err.msg = "division by zero"
               /\ call.ret.err.msg # ""
        /\ call.b # 0 =>
               /\ call.ret.err = Nil
               /\ call.ret.result.sign = IF (call.a < 0) # (call.b < 0) THEN 1 ELSE 0
               /\ call.a = 0 => IsZero(call.ret.result)
               /\ call.a # 0 => NearestTo(call.ret.result, Abs(call.a), Abs(call.b))
               /\ \A k \in FloatArgs :
                      (call.a = k * call.b /\ k # 0) =>
                          /\ IsInt(call.ret.result)
                          /\ IntMag(call.ret.result) = Abs(k)
        /\ (call.a = 10 /\ call.b = 2) =>
               call.ret.result =
                   [sign |-> 0, exp |-> Bias + 2,
                    frac |-> HexBits(<<4, 0, 0, 0, 0, 0, 0, 0, 0, 0, 0, 0, 0>>)]
        /\ (call.a = 1 /\ call.b = 3) =>
               call.ret.result =
                   [sign |-> 0, exp |-> Bias - 2,
                    frac |-> HexBits(<<5, 5, 5, 5, 5, 5, 5, 5, 5, 5, 5, 5, 5>>)]
        /\ (call.a = -10 /\ call.b = -9) =>
               call.ret.result =
                   [sign |-> 0, exp |-> Bias,
                    frac |-> HexBits(<<1, 12, 7, 1, 12, 7, 1, 12, 7, 1, 12, 7, 2>>)]

C2_Witness ==
    /\ call.fn = "divideTwoNumbers"
    /\ call.a = 10
    /\ call.b = 0
    /\ call.ret.result = Float(0)
    /\ call.ret.err.msg = "division by zero"

\* the words of the line at the head of s: where the first one starts and ends,
\* and where the next one starts
FirstWordStart(s) == blanksEnd(s, 1)
FirstWordEnd(s) == tokenEnd(s, FirstWordStart(s))
NextWordStart(s) == blanksEnd(s, FirstWordEnd(s))
HasSecondWord(s) == ReadAt(s, NextWordStart(s)) \notin {"\n", eofRune}

\* C3 (Spec), as claimed: Scanln stores the first word of the line in
\* full_name and, when more words follow on that line, leaves them all in the
\* input stream, from the second word on at least.
C3_ScanlnLeavesRestOfLine ==
    [][(pc = "Scanln" /\ pc' = "Scanf" /\ HasSecondWord(stdin)) =>
          /\ full_name' = Str(SubSeq(stdin, FirstWordStart(stdin),
                                     FirstWordEnd(stdin) - 1))
          /\ Len(stdin') >= Len(stdin) - NextWordStart(stdin) + 1]_vars

\* the input has the form of the format "%d %s": blanks, an integer, one or
\* more blanks, a word, all on one line
MatchesFormat(s) ==
    LET b == blanksEnd(s, 1)
        d == IF ReadAt(s, b) \in {"+", "-"} THEN b + 1 ELSE b
        e == digitsEnd(s, d)
        w == blanksEnd(s, e)
    IN  /\ e > d
        /\ w > e
        /\ ReadAt(s, w) \notin {"\n", eofRune}

\* C4 (Spec), as claimed: when the input does not match "<integer> <token>",
\* the Scanf read leaves age = 0 and city = "" and the routine prints
\* "You are 0 years old and live in .".
C4_MismatchLeavesZeroValues ==
    [][(pc = "Scanf" /\ pc' # "Scanf" /\ ~MatchesFormat(stdin)) =>
          /\ age' = 0
          /\ city' = ""
          /\ LastText(out') = "You are 0 years old and live in .\n"]_vars

\* the order of the calls in the body of main
ExpectedCalls == <<"PrintHello", "PrintVariables", "ExportedFunction",
                   "PrintlnUseCase", "PrintfUseCase", "UserInput",
                   "UserInputUsingBuffIo", "LearnFunctions",
                   "UnderscoreIdentifierDemo">>

\* C5 (Spec): whatever is typed, the routines main has entered so far are an
\* initial segment of the fixed order (none skipped, repeated or reordered),
\* and when main returns every one of them has been entered.
C5_FixedCallOrder ==
    /\ IsPrefix(calls, ExpectedCalls)
    /\ pc = "done" => calls = ExpectedCalls
    /\ pc \in {"Scan", "Scanln", "Scanf"} => calls[Len(calls)] = "UserInput"
    /\ pc = "ReadString" => calls[Len(calls)] = "UserInputUsingBuffIo"
    /\ pc = "range" => calls[Len(calls)] = "UnderscoreIdentifierDemo"

C5_Witness ==
    /\ pc = "done"
    /\ calls = ExpectedCalls
    /\ first_name = "a"
    /\ age = 2

\* C6 (LiveSpec): the run never ends in a panic; the process can take no
\* step only when main has returned or when it is at one of the four reads
\* with standard input still open; and with input that is eventually closed
\* main returns after the whole call sequence.
C6_TerminatesNormally ==
    /\ [](pc # "panic")
    /\ []((~ENABLED Step) => (pc = "done" \/ (pc \in ReadPoints /\ ~eof)))
    /\ <>(pc = "done" /\ calls = ExpectedCalls)

C6_Witness ==
    /\ pc = "done"
    /\ typed = 0
    /\ eof
    /\ adress = ""

\* C7 (FnSpec): for b # 0, divideNumbers(a, b) does not panic and returns
\* quotient q and remainder r with a = q*b + r, |r| < |b|, and r of the sign
\* of a when it is not zero (so q is a/b truncated toward zero); (17, 5)
\* gives 3 and 2.
C7_DivideNumbers ==
    (call.fn = "divideNumbers" /\ call.b # 0) =>
        LET q == call.ret.quotient
            r == call.ret.remainder
        IN  /\ call.ret.panic = NoErr
            /\ call.a = q * call.b + r
            /\ Abs(r) < Abs(call.b)
            /\ r # 0 => ((r < 0) <=> (call.a < 0))
            /\ (call.a = 17 /\ call.b = 5) => (q = 3 /\ r = 2)

C7_Witness ==
    /\ call.fn = "divideNumbers"
    /\ call.a = -17
    /\ call.b = 5
    /\ call.ret.quotient = -3
    /\ call.ret.remainder = -2

\* C8 (FnSpec), as claimed: a zero divisor never ends the process; both
\* division routines return normally, divideTwoNumbers with a zero result
\* and a non-nil error.
C8_ZeroDivisorIsSignalled ==
    /\ (call.fn = "divideTwoNumbers" /\ call.b = 0) =>
           (call.ret.result = Float(0) /\ ~call.ret.err.isNil)
    /\ (call.fn = "divideNumbers" /\ call.b = 0) => call.ret.panic = NoErr

\* C9 (FnSpec): swapValues(a, b) returns (b, a), ("Hello", "World") gives
\* ("World", "Hello"), and swapValues applied to its own result returns the
\* original pair.
C9_SwapValues ==
    [][/\ call'.fn = "swapValues" => call'.ret = <<call'.b, call'.a>>
       /\ (call'.fn = "swapValues" /\ call'.a = "Hello" /\ call'.b = "World") =>
              call'.ret = <<"World", "Hello">>
       /\ (call.fn = "swapValues" /\ call'.fn = "swapValues" /\ call'.n = 2) =>
              call'.ret = <<call.a, call.b>>]_vars

C9_Witness ==
    /\ call.fn = "swapValues"
    /\ call.n = 2
    /\ call.a = "World"
    /\ call.b = "Hello"
    /\ call.ret = <<"Hello", "World">>

\* C10 (Spec): in the loop of ignoreIndexInLoop, after k iterations sum is the
\* sum of the first k elements; the loop ends after len(numbers) = 5
\* iterations with sum = 150, and the line printed last is
\* "Sum of numbers is: 150".
C10_LoopSum ==
    /\ pc = "range" =>
           /\ numbers = <<10, 20, 30, 40, 50>>
           /\ idx \in 0..Len(numbers)
           /\ sum = SumFirst(numbers, idx)
    /\ pc = "done" =>
           /\ idx = 5
           /\ sum = 150
           /\ LastText(out) = "Sum of numbers is: 150\n"

C10_Witness ==
    /\ pc = "done"
    /\ idx = Len(numbers)
    /\ sum = 150

\* C11 (ArrSpec): an element of var arr1 [5]int reads 0, and one of
\* var arr2 [3]string reads "", at every point from the declaration until the
\* statement that assigns that index has run (the program assigns arr1[0],
\* arr1[1], arr1[2], arr2[0], arr2[1], in that order, and never the others);
\* printed right after the declarations the arrays read [0 0 0 0 0] and
\* ["" "" ""].
C11_ZeroValues ==
    apc # "declare" =>
        /\ DOMAIN arr1 = 0..4
        /\ DOMAIN arr2 = 0..2
        /\ \A j \in 0..4 : j >= Min(assigned, 3) => arr1[j] = 0
        /\ \A j \in 0..2 : j >= assigned - 3 => arr2[j] = ""
        /\ (apc = "assign" /\ assigned = 0) =>
               /\ out[1].text = "[0 0 0 0 0]\n"
               /\ out[2].text = "[\"\" \"\" \"\"]\n"

C11_Witness ==
    /\ apc = "assign"
    /\ assigned = 4
    /\ arr1[2] = 30
    /\ arr1[3] = 0
    /\ arr2[0] = "Hello"
    /\ arr2[1] = ""

\* the stream holds a newline
HasNewline(s) == \E i \in 1..Len(s) : s[i] = "\n"

RECURSIVE FirstLine(_)
\* the characters of s up to and including its first newline
FirstLine(s) ==
    IF s = <<>> THEN <<>>
    ELSE IF Head(s) = "\n" THEN <<"\n">>
    ELSE <<Head(s)>> \o FirstLine(Tail(s))

\* C12 (Spec): when the unread input holds a newline, ReadString('\n') in
\* UserInputUsingBuffIo returns every character up to and including the first
\* newline, blanks included and the newline last, and the line printed is
\* "Your address is: " followed by that text and Println's own newline.
C12_ReadStringKeepsDelimiter ==
    [][(pc = "ReadString" /\ pc' # "ReadString" /\ HasNewline(stdin)) =>
          /\ adress' = Str(FirstLine(stdin))
          /\ FirstLine(stdin)[Len(FirstLine(stdin))] = "\n"
          /\ LastText(out') = "Your address is: " \o Str(FirstLine(stdin)) \o "\n"]_vars

C12_Witness ==
    /\ pc = "LearnFunctions"
    /\ adress = "a b\n"
    /\ LastText(out) = "Your address is: a b\n\n"

RECURSIVE Words(_, _)
\* the words of s, in order: the maximal runs of characters other than blank,
\* tab, carriage return and newline (cur is the word being collected)
Words(s, cur) ==
    IF s = <<>> THEN (IF cur = <<>> THEN <<>> ELSE <<cur>>)
    ELSE IF Head(s) \in {" ", "\t", "\r", "\n"}
         THEN (IF cur = <<>> THEN <<>> ELSE <<cur>>) \o Words(Tail(s), <<>>)
         ELSE Words(Tail(s), Append(cur, Head(s)))

\* C13 (Spec): Scan(&first_name, &last_name) stores the first two words of
\* the input it reads, in order, whether a blank or a newline (or several)
\* separates them, on one line or on two.  While standard input is open the
\* read does not return before it has read two words: with fewer it takes
\* what is there, stores the word it found in first_name and goes on
\* waiting, and the second word, of a later line, then goes to last_name.
C13_ScanTwoTokens ==
    [][LET w == Words(stdin, <<>>) IN
       /\ (pc = "Scan" /\ pc' = "Scan" /\ Len(stdin') < Len(stdin)) =>
              /\ ~eof
              /\ numProcessed + Len(w) < 2
              /\ numProcessed' = numProcessed + Len(w)
              /\ stdin' = <<>>
              /\ first_name' = IF numProcessed = 0 /\ Len(w) = 1 THEN Str(w[1])
                               ELSE first_name
              /\ last_name' = ""
       /\ (pc = "Scan" /\ pc' = "Scanln") =>
              /\ ~eof => numProcessed + Len(w) >= 2
              /\ (numProcessed = 0 /\ Len(w) >= 2) =>
                     /\ first_name' = Str(w[1])
                     /\ last_name' = Str(w[2])
              /\ (numProcessed = 1 /\ Len(w) >= 1) =>
                     /\ first_name' = first_name
                     /\ first_name # ""
                     /\ last_name' = Str(w[1])]_vars

C13_Witness ==
    /\ pc = "Scanln"
    /\ ~eof
    /\ first_name = "a"
    /\ last_name = "2"

\* C14 (Spec), as claimed: in a run where every line is typed in answer to a
\* pending read (nothing is typed ahead), the address ReadString returns is
\* the line typed at the "Enter your address:" prompt, whole, and nothing the
\* earlier Scan, Scanln and Scanf calls left unread; while standard input is
\* open the read does not return before that line is typed.
C14_AddressIsTheAnswer ==
    [][(/\ pc = "ReadString" /\ pc' # "ReadString"
        /\ ~tty.ahead
        /\ ~eof \/ tty.answer # <<>>) =>
          adress' = Str(tty.answer)]_vars

\* C15 (Spec), as claimed: every write of every routine main calls, those of
\* LearnFunctions, addTwoNumbers and addNumbers included, goes to standard
\* output (file descriptor 1) and to no other stream.
C15_OnlyStandardOutput ==
    \A i \in 1..Len(out) : out[i].fd = 1

\* what a step has added to the output
NewWrites == SubSeq(out', Len(out) + 1, Len(out'))

\* C16 (Spec), as claimed: at every call of a routine by main, the first thing
\* written is a banner line of main, so that each routine's output is
\* immediately preceded by a banner main printed for it.
C16_BannerBeforeEachRoutine ==
    [][calls' # calls =>
          /\ NewWrites # <<>>
          /\ NewWrites[1].by = "main"]_vars

\* the routines before whose call main prints a line, and that line
SectionBanner ==
    [r \in {"PrintHello", "PrintVariables", "PrintlnUseCase", "UserInput"} |->
        CASE r = "PrintHello" -> "Hello From Vaibhav!\n"
          [] r = "PrintVariables" -> "----- Variables Demo -----\n"
          [] r = "PrintlnUseCase" -> "Difference between Println and Printf\n"
          [] r = "UserInput" -> "----- User Input Demo -----\n"]

\* C16 (Spec), amended: main prints a banner line immediately before its calls
\* of PrintHello, PrintVariables, PrintlnUseCase and UserInput, and it writes
\* nothing else: ExportedFunction, PrintfUseCase, UserInputUsingBuffIo,
\* LearnFunctions and UnderscoreIdentifierDemo are called with no banner of
\* main before their output.
C16_BannerBeforeEachSection ==
    [][/\ calls' # calls =>
            LET r == calls'[Len(calls')] IN
            IF r \in DOMAIN SectionBanner
            THEN /\ NewWrites # <<>>
                 /\ NewWrites[1] = [by |-> "main", fd |-> 1, text |-> SectionBanner[r]]
                 /\ \A i \in 2..Len(NewWrites) : NewWrites[i].by # "main"
            ELSE \A i \in 1..Len(NewWrites) : NewWrites[i].by # "main"
       /\ calls' = calls => \A i \in 1..Len(NewWrites) : NewWrites[i].by # "main"]_vars

C16_Witness ==
    /\ pc = "done"
    /\ Cardinality({i \in 1..Len(out) : out[i].by = "main"}) = 4
    /\ \E i \in 2..Len(out) : /\ out[i].by = "LearnFunctions"
                              /\ out[i - 1].by = "UserInputUsingBuffIo"

\* the texts written by the routines of `who`, in the order of the writes
TextsBy(o, who) ==
    LET IsBy(w) == w.by \in who
        sel == SelectSeq(o, IsBy)
    IN  [i \in 1..Len(sel) |-> sel[i].text]

\* the texts of the last k writes
LastTexts(o, k) == [i \in 1..k |-> o[Len(o) - k + i].text]

\* the documented output of UnderscoreIdentifierDemo
UnderscoreDemoOutput ==
    << "----- Underscore Identifier Demo -----\n",
       "Result of division is: 5\n",
       "Result of division is: 0\n",
       "Error occurred: division by zero\n",
       "----- Ignoring Index in Loop Demo -----\n",
       "Sum of numbers is: 150\n" >>

\* C17 (Spec): whatever the input, UnderscoreIdentifierDemo (with its helper
\* ignoreIndexInLoop) writes exactly the six lines of UnderscoreDemoOutput, in
\* that order and with nothing between them: the first five when it enters
\* the loop, and all six, as the last writes of the run, when main returns.
C17_UnderscoreDemoOutput ==
    LET who == {"UnderscoreIdentifierDemo", "ignoreIndexInLoop"} IN
    /\ IsPrefix(TextsBy(out, who), UnderscoreDemoOutput)
    /\ pc = "range" => LastTexts(out, 5) = SubSeq(UnderscoreDemoOutput, 1, 5)
    /\ pc = "done" => /\ TextsBy(out, who) = UnderscoreDemoOutput
                      /\ LastTexts(out, 6) = UnderscoreDemoOutput

C17_Witness ==
    /\ pc = "done"
    /\ LastTexts(out, 6)[2] = "Result of division is: 5\n"
    /\ LastTexts(out, 6)[3] = "Result of division is: 0\n"
    /\ LastTexts(out, 6)[4] = "Error occurred: division by zero\n"

\* the documented output of LearnFunctions
LearnFunctionsOutput ==
    << "----- Function Demo -----\n",
       "Sum is: 15\n",
       "Result is: 50\n",
       "Multiplication Result is: 30\n",
       "Better Multiplication Result is: 56\n",
       "After Swapping: x = World , y = Hello\n",
       "Quotient: 3 , Remainder: 2\n" >>

\* C18 (Spec): whatever the input, LearnFunctions (with addTwoNumbers and
\* addNumbers) writes the seven lines of LearnFunctionsOutput: the banner, then
\* 15, 50, 30, 56, the swapped pair and quotient 3 with remainder 2, in that
\* order, with nothing between them and nothing more.
C18_LearnFunctionsOutput ==
    LET who == {"LearnFunctions", "addTwoNumbers", "addNumbers"} IN
    /\ TextsBy(out, who) \in {<<>>, LearnFunctionsOutput}
    /\ pc = "UnderscoreIdentifierDemo" => LastTexts(out, 7) = LearnFunctionsOutput
    /\ pc \in {"range", "done"} => TextsBy(out, who) = LearnFunctionsOutput

C18_Witness ==
    /\ pc = "UnderscoreIdentifierDemo"
    /\ LastTexts(out, 7)[2] = "Sum is: 15\n"
    /\ LastTexts(out, 7)[3] = "Result is: 50\n"
    /\ LastTexts(out, 7)[6] = "After Swapping: x = World , y = Hello\n"
    /\ out[Len(out)].by = "LearnFunctions"

\* the routines that read nothing from standard input, with their helpers
NonReaders == {"PrintVariables", "ExportedFunction", "PrintlnUseCase",
               "PrintfUseCase", "LearnFunctions", "addTwoNumbers", "addNumbers",
               "UnderscoreIdentifierDemo", "ignoreIndexInLoop"}

\* the lines of PrintVariables with the initial values of the variables
PrintVariablesOutput ==
    << "Name: Vaibhav\n", "Age: 25\n", "Is Developer: true\n", "Country: India\n",
       "State: Haryana\n", "Salary: 75000.5\n", "City: Gurgaon\n",
       "Country Code: 91\n", "Pi: 3.14\n", "Language: Go\n", "Take: 19\n" >>

\* what those routines write in the run on empty input, in order
NonReadersOutput ==
    PrintVariablesOutput \o
    << "This is an exported function.\n",
       "----------------------Println Use Case----------------------\n",
       "Name: Vaibhav\n", "Age: 25\n", "Salary: 50000.5\n",
       "Start Character: 86\n", "----------------------\n",
       "Vaibhav 25 50000.5 86\n",
       "----------------------Printf Use Case----------------------\n",
       "Name: Vaibhav\n", "Age: 25\n", "Salary : 50000.500\n",
       "Start Character: V\n", "----------------------\n",
       "Combined Output without spaces:\n", "Vaibhav2550000.50V\n",
       "Combined Output with spaces:\n", "Vaibhav 25 50000.50 V" >>
    \o LearnFunctionsOutput \o UnderscoreDemoOutput

\* C19 (Spec): the output of the routines that read no standard input is the
\* same in all runs, whatever is typed and whenever: in every reachable state
\* what they have written so far is an initial segment of one fixed sequence
\* of texts, and the whole of it when main returns.  (Any two runs therefore
\* agree on it.)
C19_NonReadersIgnoreInput ==
    /\ IsPrefix(TextsBy(out, NonReaders), NonReadersOutput)
    /\ pc = "done" => TextsBy(out, NonReaders) = NonReadersOutput

C19_Witness ==
    /\ pc = "done"
    /\ first_name = "a"
    /\ full_name = "c"
    /\ age = 2
    /\ adress # ""
    /\ TextsBy(out, NonReaders) = NonReadersOutput

\* C20 (Spec): at every point of every run the package-level variables name,
\* age, isDeveloper, city and countryCode of package variables hold "Vaibhav",
\* 25, true, "Gurgaon" and 91: no step reassigns them, PrintVariables and the
\* reads into UserInput's own age and city included, so that PrintVariables
\* called again, right after it has returned or when main returns, would
\* print the lines it printed the first time.
C20_PackageVariablesFixed ==
    /\ pkg = [name |-> "Vaibhav", age |-> 25, isDeveloper |-> TRUE,
              city |-> "Gurgaon", countryCode |-> 91]
    /\ pc \in {"ExportedFunction", "done"} =>
           [i \in 1..Len(PrintVariablesLines) |-> PrintVariablesLines[i].text]
               = PrintVariablesOutput

C20_Witness ==
    /\ pc = "done"
    /\ age = 2
    /\ city = "c"
    /\ pkg.age = 25
    /\ pkg.city = "Gurgaon"
    /\ TextsBy(out, {"PrintVariables"}) = PrintVariablesOutput

\* the declarations PrintVariables prints, in the order of their lines in the
\* source (17, 18, 19, 21, 22, 23, 29, 30, 35, 36 and, in the function, 54):
\* the label printed for each and the text of its value
Declarations ==
    << <<"Name:", "Vaibhav">>, <<"Age:", "25">>, <<"Is Developer:", "true">>,
       <<"Country:", "India">>, <<"State:", "Haryana">>, <<"Salary:", "75000.5">>,
       <<"City:", "Gurgaon">>, <<"Country Code:", "91">>, <<"Pi:", "3.14">>,
       <<"Language:", "Go">>, <<"Take:", "19">> >>

\* C21 (Spec): PrintVariables writes one line for each declaration, the i-th
\* line being the label and the value of the i-th declaration: Name, Age,
\* Is Developer, Country, State, Salary, City, Country Code, Pi, Language and
\* last Take; before it is called it has written nothing.
C21_DeclarationOrder ==
    LET lines == TextsBy(out, {"PrintVariables"}) IN
    IF pc \in {"PrintHello", "PrintVariables"}
    THEN lines = <<>>
    ELSE /\ Len(lines) = Len(Declarations)
         /\ \A i \in 1..Len(Declarations) :
                lines[i] = Declarations[i][1] \o " " \o Declarations[i][2] \o "\n"

C21_Witness ==
    /\ pc = "ExportedFunction"
    /\ LastTexts(out, 11)[1] = "Name: Vaibhav\n"
    /\ LastTexts(out, 11)[7] = "City: Gurgaon\n"
    /\ LastTexts(out, 11)[11] = "Take: 19\n"

\* the rows of the literal [2][3]int{{1, 2, 3}, {4, 5, 6}}
LiteralRows == << <<1, 2, 3>>, <<4, 5, 6>> >>

\* C22 (ArrSpec): once arr is initialised, arr[i][j] reads the j-th value of
\* the i-th row of the literal (indices from 0) for every i in 0..1 and j in
\* 0..2, so arr[0][0] reads 1 and arr[1][2] reads 6; it has 2 rows of 3
\* elements and is printed as [[1 2 3] [4 5 6]].
C22_TwoDimensionalLiteral ==
    apc \in {"copy", "write", "done"} =>
        /\ DOMAIN arr = 0..1
        /\ \A i \in 0..1 : DOMAIN arr[i] = 0..2
        /\ \A i \in 0..1 : \A j \in 0..2 : arr[i][j] = LiteralRows[i + 1][j + 1]
        /\ arr[0][0] = 1
        /\ arr[1][2] = 6
        /\ out[7].text = "[[1 2 3] [4 5 6]]\n"

C22_Witness ==
    /\ apc = "copy"
    /\ arr[0][0] = 1
    /\ arr[0][2] = 3
    /\ arr[1][0] = 4
    /\ arr[1][2] = 6

\* the elements at which two arrays over the same indices differ
Changed(a, b) == {j \in DOMAIN a : a[j] # b[j]}

\* C23 (ArrSpec): each of the assignments arr1[0] = 10, arr1[1] = 20,
\* arr1[2] = 30, arr2[0] = "Hello", arr2[1] = "World" changes the element it
\* names and no other element of either array; after the first three arr1
\* reads [10 20 30 0 0], after all five arr2 reads ["Hello" "World" ""], and
\* that is how they are printed; the arrays keep their lengths 5 and 3.
C23_IndexedAssignment ==
    [][/\ assigned' = assigned + 1 =>
            IF assigned < 3
            THEN /\ Changed(arr1, arr1') = {assigned}
                 /\ arr2' = arr2
            ELSE /\ Changed(arr2, arr2') = {assigned - 3}
                 /\ arr1' = arr1
       /\ apc' # "declare" => /\ DOMAIN arr1' = 0..4
                              /\ DOMAIN arr2' = 0..2
       /\ assigned' >= 3 =>
            arr1' = [j \in 0..4 |-> CASE j = 0 -> 10 [] j = 1 -> 20 [] j = 2 -> 30
                                      [] OTHER -> 0]
       /\ assigned' = 5 =>
            arr2' = [j \in 0..2 |-> CASE j = 0 -> "Hello" [] j = 1 -> "World"
                                      [] OTHER -> ""]
       /\ (apc = "assign" /\ apc' = "literals") =>
            /\ NewWrites[1].text = "[10 20 30 0 0]\n"
            /\ NewWrites[2].text = "[\"Hello\" \"World\" \"\"]\n"]_vars

C23_Witness ==
    /\ apc = "literals"
    /\ assigned = 5
    /\ arr1[2] = 30
    /\ arr1[4] = 0
    /\ arr2[1] = "World"
    /\ arr2[2] = ""
    /\ LastText(out) = "[\"Hello\" \"World\" \"\"]\n"

\* C24 (FnSpec): the checked call c, err := divideTwoNumbers(a, b) with its
\* if/else writes exactly one line: "Error occurred: division by zero" when
\* b == 0 and only then, and otherwise "Result of division is:" with the
\* quotient (-0 for 0 divided by a negative number); with b == 0 no line
\* showing the result 0 is written.
C24_CheckedCallPrintsOneLine ==
    call.fn = "CheckedDivision" =>
        /\ Len(call.ret) = 1
        /\ call.ret[1].fd = 1
        /\ (call.b = 0) <=> (call.ret[1].text = "Error occurred: division by zero\n")
        /\ call.b = 0 => call.ret[1].text # "Result of division is: 0\n"
        /\ call.b # 0 =>
               \E q \in (-MaxFloatArg - 1)..(MaxFloatArg + 1) :
                   /\ call.a = q * call.b
                   /\ call.ret[1].text =
                          "Result of division is: "
                          \o (IF call.a = 0 /\ call.b < 0 THEN "-0" ELSE ToString(q))
                          \o "\n"

C24_Witness ==
    /\ call.fn = "CheckedDivision"
    /\ call.a = 10
    /\ call.b = 0
    /\ call.ret = << [by |-> "UnderscoreIdentifierDemo", fd |-> 1,
                      text |-> "Error occurred: division by zero\n"] >>

\* C25 (Spec): once the two routines have run, PrintlnUseCase's combined line
\* is its four values (the rune as its code point 86) with one blank between
\* neighbours and a newline after the last, and a two-operand Println line is
\* label, blank, value, newline; PrintfUseCase's "without spaces" line is the
\* four formatted values one after the other with nothing between them,
\* followed only by the newline its format ends with.
C25_PrintlnSpacesPrintfNone ==
    pc \notin {"PrintHello", "PrintVariables", "ExportedFunction",
               "PrintlnUseCase", "PrintfUseCase"} =>
        LET ln == TextsBy(out, {"PrintlnUseCase"})
            f == TextsBy(out, {"PrintfUseCase"})
        IN  /\ Len(ln) = 7
            /\ Len(f) = 10
            /\ ln[2] = "Name:" \o " " \o "Vaibhav" \o "\n"
            /\ ln[7] = "Vaibhav" \o " " \o "25" \o " " \o "50000.5" \o " " \o "86" \o "\n"
            /\ f[2] = "Name: " \o "Vaibhav" \o "\n"
            /\ f[7] = "Combined Output without spaces:\n"
            /\ f[8] = "Vaibhav" \o "25" \o "50000.50" \o "V" \o "\n"

C25_Witness ==
    /\ pc = "UserInput"
    /\ TextsBy(out, {"PrintlnUseCase"})[7] = "Vaibhav 25 50000.5 86\n"
    /\ TextsBy(out, {"PrintfUseCase"})[8] = "Vaibhav2550000.50V\n"

\* the nine lines of UserInput, with the values its variables hold
UserInputLines ==
    << "-----Taking user input using Scan-----\n",
       "Enter your name:\n",
       "Hello, " \o first_name \o " " \o last_name \o "!\n",
       "-----Taking user input using Scanln-----\n",
       "Enter your full name:\n",
       "Hello, " \o full_name \o "!\n",
       "-----Taking user input using Scanf-----\n",
       "Enter your age and city (e.g., 25 NewYork):\n",
       "You are " \o ToString(age) \o " years old and live in " \o city \o ".\n" >>

\* how many of them are written when the run is at pc
UserInputWritten ==
    CASE pc \in {"PrintHello", "PrintVariables", "ExportedFunction",
                 "PrintlnUseCase", "PrintfUseCase", "UserInput"} -> 0
      [] pc = "Scan" -> 2
      [] pc = "Scanln" -> 5
      [] pc = "Scanf" -> 8
      [] OTHER -> 9

\* C26 (Spec): whatever is typed, and also when standard input is closed,
\* UserInput writes the same nine lines in the same order, all to standard
\* output: banner and prompt are written when the Scan read starts and the
\* prompt is then the last thing written; the echo of a read is written only
\* when the read has returned, followed by the next banner and prompt; only
\* the values in the three echo lines depend on the input.
C26_UserInputWrites ==
    /\ TextsBy(out, {"UserInput"}) = SubSeq(UserInputLines, 1, UserInputWritten)
    /\ pc \in {"Scan", "Scanln", "Scanf"} =>
           /\ LastText(out) = UserInputLines[UserInputWritten]
           /\ out[Len(out)].fd = 1
    /\ pc = "UserInputUsingBuffIo" => LastText(out) = UserInputLines[9]

C26_Witness ==
    /\ pc = "UserInputUsingBuffIo"
    /\ Len(TextsBy(out, {"UserInput"})) = 9
    /\ first_name = "a"
    /\ full_name = "a"
    /\ age = 2
    /\ city = "c"
    /\ LastText(out) = "You are 2 years old and live in c.\n"

\* the number of decimal digits at the head of s
RECURSIVE LeadingDigits(_)
LeadingDigits(s) ==
    IF s # <<>> /\ Head(s) \in {"0", "1", "2", "3", "4", "5", "6", "7", "8", "9"}
    THEN 1 + LeadingDigits(Tail(s))
    ELSE 0

\* the number a sequence of decimal digits writes
RECURSIVE Decimal(_)
Decimal(ds) ==
    IF ds = <<>> THEN 0
    ELSE 10 * Decimal(SubSeq(ds, 1, Len(ds) - 1))
         + (CHOOSE v \in 0..9 : ToString(v) = ds[Len(ds)])

\* C27 (Spec): when the unread input at the Scanf read is an integer directly
\* followed by the end of the line (as in the line "25"), the read returns
\* with age holding that integer and city still empty, and the line printed
\* is "You are <integer> years old and live in .".
C27_ParsedIntegerIsKept ==
    [][(/\ pc = "Scanf" /\ pc' # "Scanf"
        /\ LeadingDigits(stdin) > 0
        /\ Len(stdin) > LeadingDigits(stdin)
        /\ stdin[LeadingDigits(stdin) + 1] = "\n") =>
          LET v == Decimal(SubSeq(stdin, 1, LeadingDigits(stdin))) IN
          /\ age' = v
          /\ city' = ""
          /\ LastText(out') =
                 "You are " \o ToString(v) \o " years old and live in .\n"]_vars

C27_Witness ==
    /\ pc = "UserInputUsingBuffIo"
    /\ age = 2
    /\ city = ""
    /\ LastText(out) = "You are 2 years old and live in .\n"

\* C28 (Spec): the last write of PrintfUseCase is "Vaibhav 25 50000.50 V" with
\* no newline after it; it is the last thing written when the routine
\* returns, and the next write to standard output is main's banner, so that
\* the output line reads "Vaibhav 25 50000.50 V----- User Input Demo -----".
C28_BannerOnTheSameLine ==
    /\ pc = "UserInput" =>
           out[Len(out)] = [by |-> "PrintfUseCase", fd |-> 1,
                            text |-> "Vaibhav 25 50000.50 V"]
    /\ pc \notin {"PrintHello", "PrintVariables", "ExportedFunction",
                  "PrintlnUseCase", "PrintfUseCase", "UserInput"} =>
           \E i \in 2..Len(out) :
               /\ out[i] = [by |-> "main", fd |-> 1,
                            text |-> "----- User Input Demo -----\n"]
               /\ out[i - 1].by = "PrintfUseCase"
               /\ out[i - 1].fd = 1
               /\ out[i - 1].text \o out[i].text
                      = "Vaibhav 25 50000.50 V----- User Input Demo -----\n"

C28_Witness ==
    /\ pc = "Scan"
    /\ out[Len(out) - 3].text = "Vaibhav 25 50000.50 V"
    /\ out[Len(out) - 2].text = "----- User Input Demo -----\n"

\* C29 (FnSpec): for all a and b, a call of multiplyNumbers or of
\* betterMultiplyNumbers returns a * b; the other function returns the same
\* value for the same arguments, and both return it for the arguments
\* exchanged; (5, 6) gives 30 and (7, 8) gives 56.
C29_MultiplyEquivalent ==
    call.fn \in {"multiplyNumbers", "betterMultiplyNumbers"} =>
        /\ call.ret = call.a * call.b
        /\ multiplyNumbers(call.a, call.b) = call.ret
        /\ betterMultiplyNumbers(call.a, call.b) = call.ret
        /\ multiplyNumbers(call.b, call.a) = call.ret
        /\ betterMultiplyNumbers(call.b, call.a) = call.ret
        /\ (call.a = 5 /\ call.b = 6) => call.ret = 30
        /\ (call.a = 7 /\ call.b = 8) => call.ret = 56

C29_Witness ==
    /\ call.fn = "betterMultiplyNumbers"
    /\ call.a = 7
    /\ call.b = -8
    /\ call.ret = -56

====
